---- MODULE Spec2Model ----
(***************************************************************************)
(* Model of the site's UI controller (src/scripts/main.js, variant A, and  *)
(* src/js/main.js, variant B): the signup form submitter with its message  *)
(* area and timers, the e-mail validator, and the mobile menu toggler.     *)
(*                                                                         *)
(* Strings that the program inspects character by character (the e-mail    *)
(* field) are sequences of one-character strings; labels, messages and     *)
(* class names, which the program only assigns, are TLA+ strings.          *)
(* Time is counted in milliseconds; Tick advances it up to the next timer  *)
(* deadline, so a timer fires exactly when its delay has elapsed.          *)
(***************************************************************************)
EXTENDS Integers, Sequences, FiniteSets, TLC

VARIABLES
    variant,               \* "A": src/scripts/main.js (fetch), "B": src/js/main.js (setTimeout)
    signupFormPresent,     \* signupForm !== null
    signupMessagePresent,  \* signupMessage !== null
    inputValue,            \* emailInput.value
    buttonText,            \* button.textContent
    buttonDisabled,        \* button.disabled
    msgText,               \* signupMessage.textContent
    msgClass,              \* signupMessage.className
    msgAge,                \* ms since the showMessage call that wrote msgText (0 when empty)
    clearTimers,           \* remaining ms of each pending showMessage timer, oldest first
    pending,               \* submissions not yet settled, oldest first
    navTogglePresent,      \* navToggle !== null
    navMobilePresent,      \* navMobile !== null
    isMenuOpen,            \* let isMenuOpen
    toggleActive,          \* navToggle.classList.contains('active')
    mobileActive,          \* navMobile.classList.contains('active')
    bodyOverflow,          \* document.body.style.overflow
    innerWidth,            \* window.innerWidth
    wasOpen,               \* history: isMenuOpen before the event handled last
    toggleRun,             \* history: toggle clicks so far if nothing else happened, else -1
    scrollY,               \* window.scrollY
    scrollEventPending,    \* the offset changed and its 'scroll' event is not yet dispatched
    ticking,               \* let ticking (setupNavScroll)
    frameCallbacks,        \* requestAnimationFrame callbacks scheduled and not yet run
    navScrolled,           \* nav.classList.contains('scrolled')
    lastScroll,            \* let lastScroll (setupNavScroll)
    observerSupported,     \* 'IntersectionObserver' in window
    visible,               \* el.classList.contains('visible'), per reveal element
    observed,              \* the elements the observer observes
    inView,                \* the elements that intersect the viewport now
    addCount,              \* history: classList.add('visible') calls, per reveal element
    last                   \* history: the event handled last

formVars == <<variant, signupFormPresent, signupMessagePresent, inputValue, buttonText,
              buttonDisabled, msgText, msgClass, msgAge, clearTimers, pending>>
menuVars == <<navTogglePresent, navMobilePresent, isMenuOpen, toggleActive, mobileActive,
              bodyOverflow, innerWidth, wasOpen, toggleRun>>
scrollVars == <<scrollY, scrollEventPending, ticking, frameCallbacks, navScrolled, lastScroll>>
revealVars == <<observerSupported, visible, observed, inView, addCount>>
pageVars == <<scrollVars, revealVars>>
vars == <<formVars, menuVars, pageVars, last>>

----------------------------------------------------------------------------
(* Bounds *)

MaxLen == 5        \* longest string given to isValidEmail in SpecEmail
MaxPending == 2    \* cap on submissions outstanding at once
MaxTimers == 3     \* cap on timers armed or still to be armed by a pending submission

(* Program constants *)

ClearDelay == 5000     \* showMessage: setTimeout(..., 5000)
SubmitDelay == 1000    \* variant B: setTimeout(..., 1000)
Breakpoint == 768      \* resize listener: window.innerWidth >= 768

InitialLabel == "Join the list"     \* the button's label in the page markup
PendingLabel == IF variant = "A" THEN "Signing up..." ELSE "Sending..."
InvalidMessage == "Please enter a valid email address."
SuccessMessage == IF variant = "A" THEN "You're on the list!"
                                   ELSE "Thanks! We'll be in touch soon."
FailureMessage == "Something went wrong. Please try again."
BaseClass == "signup-message"

----------------------------------------------------------------------------
(* Strings as sequences of characters *)

Whitespace == {" ", "\t"}
Alphabet == {"a", "@", "."} \cup Whitespace

Min(a, b) == IF a <= b THEN a ELSE b

RECURSIVE GCD(_, _)
GCD(a, b) == IF b = 0 THEN a ELSE GCD(b, a % b)

\* [^\s@]
IsNameChar(c) == c \notin Whitespace /\ c # "@"

\* Mutant: the '.' of the pattern left unescaped, so that it matches any character
RegexStep_UnescapedDot(S, c) ==
    { q \in 1..5 :
        \/ q = 1 /\ IsNameChar(c) /\ (0 \in S \/ 1 \in S)
        \/ q = 2 /\ c = "@" /\ 1 \in S
        \/ q = 3 /\ IsNameChar(c) /\ (2 \in S \/ 3 \in S)
        \/ q = 4 /\ 3 \in S
        \/ q = 5 /\ IsNameChar(c) /\ (4 \in S \/ 5 \in S) }

\* Mutant: the labels after '@' written [^\s@.]+, so that they hold no '.'
RegexStep_NoDotInLabels(S, c) ==
    { q \in 1..5 :
        \/ q = 1 /\ IsNameChar(c) /\ (0 \in S \/ 1 \in S)
        \/ q = 2 /\ c = "@" /\ 1 \in S
        \/ q = 3 /\ IsNameChar(c) /\ c # "." /\ (2 \in S \/ 3 \in S)
        \/ q = 4 /\ c = "." /\ 3 \in S
        \/ q = 5 /\ IsNameChar(c) /\ c # "." /\ (4 \in S \/ 5 \in S) }

\* One step of the automaton of /^[^\s@]+@[^\s@]+\.[^\s@]+$/ on character c.
\* States: 0 start, 1 in local part, 2 after '@', 3 in domain, 4 after the
\* literal '.', 5 in the last label (accepting).
RegexStep(S, c) ==
    { q \in 1..5 :
        \/ q = 1 /\ IsNameChar(c) /\ (0 \in S \/ 1 \in S)
        \/ q = 2 /\ c = "@" /\ 1 \in S
        \/ q = 3 /\ IsNameChar(c) /\ (2 \in S \/ 3 \in S)
        \/ q = 4 /\ c = "." /\ 3 \in S
        \/ q = 5 /\ IsNameChar(c) /\ (4 \in S \/ 5 \in S) }

RECURSIVE RegexRun(_, _)
RegexRun(S, s) == IF s = <<>> THEN S ELSE RegexRun(RegexStep(S, Head(s)), Tail(s))

isValidEmail(email) == 5 \in RegexRun({0}, email)

RECURSIVE TrimStart(_)
TrimStart(s) == IF s # <<>> /\ Head(s) \in Whitespace THEN TrimStart(Tail(s)) ELSE s

RECURSIVE TrimEnd(_)
TrimEnd(s) ==
    IF s # <<>> /\ s[Len(s)] \in Whitespace THEN TrimEnd(SubSeq(s, 1, Len(s) - 1)) ELSE s

\* String.prototype.trim
trim(s) == TrimEnd(TrimStart(s))

----------------------------------------------------------------------------
(* The signup form *)

\* What the user may have typed into the field
FieldValues == { <<>>,
                 <<"a", ".", "a">>,
                 <<"a", "@", "a", ".", "a">>,
                 <<" ", "a", "@", "a", ".", "a", "\t">> }

FormInit ==
    /\ inputValue = <<>>
    /\ buttonText = InitialLabel
    /\ buttonDisabled = FALSE
    /\ msgText = ""
    /\ msgClass = BaseClass
    /\ msgAge = 0
    /\ clearTimers = <<>>
    /\ pending = <<>>

MenuInit ==
    /\ isMenuOpen = FALSE
    /\ toggleActive = FALSE
    /\ mobileActive = FALSE
    /\ bodyOverflow = ""
    /\ wasOpen = FALSE
    /\ toggleRun = 0

\* The page at rest: at the top, no reveal-flagged elements
PageIdle ==
    /\ scrollY = 0
    /\ scrollEventPending = FALSE
    /\ ticking = FALSE
    /\ frameCallbacks = 0
    /\ navScrolled = FALSE
    /\ lastScroll = 0
    /\ observerSupported = TRUE
    /\ visible = {}
    /\ observed = {}
    /\ inView = {}
    /\ addCount = <<>>

Init ==
    /\ variant \in {"A", "B"}
    /\ signupFormPresent = TRUE
    /\ signupMessagePresent \in BOOLEAN
    /\ navTogglePresent = TRUE
    /\ navMobilePresent = TRUE
    /\ innerWidth = 320
    /\ FormInit
    /\ MenuInit
    /\ PageIdle
    /\ last = "init"

msgVars == <<msgText, msgClass, msgAge, clearTimers>>

\* Mutant: the message is written but no timer is started to clear it
showMessage_NoTimer(message, type) ==
    IF ~signupMessagePresent
    THEN UNCHANGED msgVars
    ELSE /\ msgText' = message
         /\ msgClass' = BaseClass \o " " \o type
         /\ msgAge' = 0
         /\ UNCHANGED clearTimers

\* showMessage(message, type)
showMessage(message, type) ==
    IF ~signupMessagePresent
    THEN UNCHANGED msgVars
    ELSE /\ msgText' = message
         /\ msgClass' = BaseClass \o " " \o type
         /\ msgAge' = 0
         /\ clearTimers' = Append(clearTimers, ClearDelay)

\* The user's submit events are bounded: every submission started ends in one
\* showMessage call, and every showMessage call arms one timer.
TimerRoom == Len(clearTimers) + Len(pending) < MaxTimers

\* The user edits the e-mail field
TypeInput(v) ==
    /\ signupFormPresent
    /\ v # inputValue
    /\ inputValue' = v
    /\ last' = "input"
    /\ UNCHANGED <<variant, signupFormPresent, signupMessagePresent, buttonText,
                   buttonDisabled, msgVars, pending>>
    /\ UNCHANGED <<menuVars, pageVars>>

\* The record of a submission started by the submit handler
NewSubmission(email, originalText) ==
    [ email |-> email,
      originalText |-> originalText,
      stage |-> IF variant = "A" THEN "fetch" ELSE "timer",
      remaining |-> IF variant = "A" THEN 0 ELSE SubmitDelay ]

\* Mutant: the loading state is entered before the value is validated
SubmitHandler_LoadingBeforeValidation ==
    /\ signupFormPresent
    /\ TimerRoom
    /\ buttonText' = PendingLabel
    /\ buttonDisabled' = TRUE
    /\ LET email == trim(inputValue) IN
       IF ~isValidEmail(email)
       THEN /\ showMessage(InvalidMessage, "error")
            /\ UNCHANGED pending
       ELSE /\ Len(pending) < MaxPending
            /\ pending' = Append(pending, NewSubmission(email, buttonText))
            /\ UNCHANGED msgVars
    /\ last' = "submit"
    /\ UNCHANGED <<variant, signupFormPresent, signupMessagePresent, inputValue>>
    /\ UNCHANGED <<menuVars, pageVars>>

\* Mutant: the button's label changes but the button is not disabled
SubmitHandler_NoDisable ==
    /\ signupFormPresent
    /\ TimerRoom
    /\ LET email == trim(inputValue) IN
       IF ~isValidEmail(email)
       THEN /\ showMessage(InvalidMessage, "error")
            /\ UNCHANGED <<buttonText, buttonDisabled, pending>>
       ELSE /\ Len(pending) < MaxPending
            /\ buttonText' = PendingLabel
            /\ UNCHANGED buttonDisabled
            /\ pending' = Append(pending, NewSubmission(email, buttonText))
            /\ UNCHANGED msgVars
    /\ last' = "submit"
    /\ UNCHANGED <<variant, signupFormPresent, signupMessagePresent, inputValue>>
    /\ UNCHANGED <<menuVars, pageVars>>

\* Mutant: the request carries the field's value as typed, not the trimmed one
SubmitHandler_SendsUntrimmed ==
    /\ signupFormPresent
    /\ TimerRoom
    /\ LET email == trim(inputValue) IN
       IF ~isValidEmail(email)
       THEN /\ showMessage(InvalidMessage, "error")
            /\ UNCHANGED <<buttonText, buttonDisabled, pending>>
       ELSE /\ Len(pending) < MaxPending
            /\ buttonText' = PendingLabel
            /\ buttonDisabled' = TRUE
            /\ pending' = Append(pending, NewSubmission(inputValue, buttonText))
            /\ UNCHANGED msgVars
    /\ last' = "submit"
    /\ UNCHANGED <<variant, signupFormPresent, signupMessagePresent, inputValue>>
    /\ UNCHANGED <<menuVars, pageVars>>

\* The 'submit' listener of signupForm
SubmitHandler ==
    /\ signupFormPresent
    /\ TimerRoom
    /\ LET email == trim(inputValue) IN
       IF ~isValidEmail(email)
       THEN /\ showMessage(InvalidMessage, "error")
            /\ UNCHANGED <<buttonText, buttonDisabled, pending>>
       ELSE /\ Len(pending) < MaxPending
            /\ buttonText' = PendingLabel
            /\ buttonDisabled' = TRUE
            /\ pending' = Append(pending, NewSubmission(email, buttonText))
            /\ UNCHANGED msgVars
    /\ last' = "submit"
    /\ UNCHANGED <<variant, signupFormPresent, signupMessagePresent, inputValue>>
    /\ UNCHANGED <<menuVars, pageVars>>

Remove(seq, i) == SubSeq(seq, 1, i - 1) \o SubSeq(seq, i + 1, Len(seq))

\* .finally: button.textContent = originalText; button.disabled = false
RestoreButton(sub) ==
    /\ buttonText' = sub.originalText
    /\ buttonDisabled' = FALSE

\* Mutant: the field is not cleared after a success
OnSuccess_KeepsInput ==
    /\ showMessage(SuccessMessage, "success")
    /\ UNCHANGED inputValue

\* second .then (variant A) / the body of the timer callback (variant B)
OnSuccess ==
    /\ showMessage(SuccessMessage, "success")
    /\ inputValue' = <<>>

\* .catch
OnFailure ==
    /\ showMessage(FailureMessage, "error")
    /\ UNCHANGED inputValue

\* Mutant: the first .then does not test response.ok, so every response is read
FetchSettles_NoOkCheck(i, outcome) ==
    /\ variant = "A"
    /\ i \in 1..Len(pending)
    /\ pending[i].stage = "fetch"
    /\ IF outcome \in {"ok", "not_ok"}
       THEN /\ pending' = [pending EXCEPT ![i].stage = "json"]
            /\ UNCHANGED <<inputValue, buttonText, buttonDisabled, msgVars>>
       ELSE /\ OnFailure
            /\ RestoreButton(pending[i])
            /\ pending' = Remove(pending, i)
    /\ last' = "fetch_" \o outcome
    /\ UNCHANGED <<variant, signupFormPresent, signupMessagePresent>>
    /\ UNCHANGED <<menuVars, pageVars>>

\* Variant A: the fetch promise of submission i settles. outcome "ok": a response
\* with response.ok, whose body is then read; "not_ok": a response without
\* response.ok (the first .then throws); "network_error": fetch rejects.
FetchSettles(i, outcome) ==
    /\ variant = "A"
    /\ i \in 1..Len(pending)
    /\ pending[i].stage = "fetch"
    /\ IF outcome = "ok"
       THEN /\ pending' = [pending EXCEPT ![i].stage = "json"]
            /\ UNCHANGED <<inputValue, buttonText, buttonDisabled, msgVars>>
       ELSE /\ OnFailure
            /\ RestoreButton(pending[i])
            /\ pending' = Remove(pending, i)
    /\ last' = "fetch_" \o outcome
    /\ UNCHANGED <<variant, signupFormPresent, signupMessagePresent>>
    /\ UNCHANGED <<menuVars, pageVars>>

\* Variant A: response.json() of submission i settles; parsed = FALSE: it rejects.
JsonSettles(i, parsed) ==
    /\ variant = "A"
    /\ i \in 1..Len(pending)
    /\ pending[i].stage = "json"
    /\ IF parsed
       THEN OnSuccess /\ last' = "json_parsed"
       ELSE OnFailure /\ last' = "json_failed"
    /\ RestoreButton(pending[i])
    /\ pending' = Remove(pending, i)
    /\ UNCHANGED <<variant, signupFormPresent, signupMessagePresent>>
    /\ UNCHANGED <<menuVars, pageVars>>

\* Variant B: the 1000 ms timer of the oldest submission fires
SubmitTimerFires ==
    /\ variant = "B"
    /\ pending # <<>>
    /\ pending[1].remaining = 0
    /\ OnSuccess
    /\ RestoreButton(pending[1])
    /\ pending' = Tail(pending)
    /\ last' = "timer_elapsed"
    /\ UNCHANGED <<variant, signupFormPresent, signupMessagePresent>>
    /\ UNCHANGED <<menuVars, pageVars>>

\* The callback of the oldest showMessage timer
ClearTimerFires ==
    /\ clearTimers # <<>>
    /\ clearTimers[1] = 0
    /\ msgText' = ""
    /\ msgClass' = BaseClass
    /\ msgAge' = 0
    /\ clearTimers' = Tail(clearTimers)
    /\ last' = "clear"
    /\ UNCHANGED <<variant, signupFormPresent, signupMessagePresent, inputValue,
                   buttonText, buttonDisabled, pending>>
    /\ UNCHANGED <<menuVars, pageVars>>

\* The resolution of the clock: the coarsest one at which both of the program's
\* delays are a whole number of steps
Quantum == GCD(ClearDelay, SubmitDelay)

\* Remaining times of all armed timers
Deadlines ==
    { clearTimers[k] : k \in 1..Len(clearTimers) } \cup
    { pending[k].remaining : k \in { j \in 1..Len(pending) : pending[j].stage = "timer" } }

\* Time passes, at most until the next deadline; no timer is overdue
Tick ==
    /\ 0 \notin Deadlines
    /\ LET d == CHOOSE x \in Deadlines \cup {Quantum} :
                    \A y \in Deadlines \cup {Quantum} : x <= y IN
       /\ clearTimers' = [k \in 1..Len(clearTimers) |-> clearTimers[k] - d]
       /\ pending' = [k \in 1..Len(pending) |->
                        IF pending[k].stage = "timer"
                        THEN [pending[k] EXCEPT !.remaining = @ - d]
                        ELSE pending[k]]
       /\ msgAge' = IF msgText = "" THEN 0 ELSE Min(msgAge + d, ClearDelay + 1)
    /\ last' = "tick"
    /\ UNCHANGED <<variant, signupFormPresent, signupMessagePresent, inputValue,
                   buttonText, buttonDisabled, msgText, msgClass>>
    /\ UNCHANGED <<menuVars, pageVars>>

Next ==
    \/ \E v \in FieldValues : TypeInput(v)
    \/ SubmitHandler
    \/ \E i \in 1..MaxPending, o \in {"ok", "not_ok", "network_error"} : FetchSettles(i, o)
    \/ \E i \in 1..MaxPending, p \in BOOLEAN : JsonSettles(i, p)
    \/ SubmitTimerFires
    \/ ClearTimerFires
    \/ Tick

Spec == Init /\ [][Next]_vars

----------------------------------------------------------------------------
(* The e-mail validator on its own: every string up to MaxLen is validated *)

RECURSIVE Strings(_)
Strings(n) ==
    IF n = 0 THEN { <<>> }
    ELSE LET shorter == Strings(n - 1) IN
         shorter \cup { Append(s, c) : s \in { t \in shorter : Len(t) = n - 1 }, c \in Alphabet }

InitEmail ==
    /\ variant = "A"
    /\ signupFormPresent = TRUE
    /\ signupMessagePresent = TRUE
    /\ navTogglePresent = TRUE
    /\ navMobilePresent = TRUE
    /\ innerWidth = 320
    /\ buttonText = InitialLabel
    /\ buttonDisabled = FALSE
    /\ msgText = ""
    /\ msgClass = BaseClass
    /\ msgAge = 0
    /\ clearTimers = <<>>
    /\ pending = <<>>
    /\ MenuInit
    /\ PageIdle
    /\ inputValue \in Strings(MaxLen)
    /\ last = "init"

\* isValidEmail(inputValue) is called and its result recorded
CheckEmail ==
    /\ last = "init"
    /\ last' = IF isValidEmail(inputValue) THEN "accepted" ELSE "rejected"
    /\ UNCHANGED <<formVars, menuVars, pageVars>>

NextEmail == CheckEmail

SpecEmail == InitEmail /\ [][NextEmail]_vars

----------------------------------------------------------------------------
(* The mobile menu *)

Widths == {320, 767, 768, 769, 1280}
Keys == {"Escape", "Enter", "Tab"}
NumLinks == 2
MaxToggles == 4    \* longest run of toggle clicks that is counted

\* Mutant: the guard tests the toggle control only
MenuWired_ToggleOnly == navTogglePresent

\* setupMobileMenu registers its listeners only when both elements exist
MenuWired == navTogglePresent /\ navMobilePresent

openMenu ==
    /\ isMenuOpen' = TRUE
    /\ toggleActive' = TRUE
    /\ mobileActive' = TRUE
    /\ bodyOverflow' = "hidden"

\* Mutant: the marker is left on the menu container
closeMenu_KeepsMobileActive ==
    /\ isMenuOpen' = FALSE
    /\ toggleActive' = FALSE
    /\ UNCHANGED mobileActive
    /\ bodyOverflow' = ""

closeMenu ==
    /\ isMenuOpen' = FALSE
    /\ toggleActive' = FALSE
    /\ mobileActive' = FALSE
    /\ bodyOverflow' = ""

\* Mutant: the toggle only ever opens
toggleMenu_OpensOnly == openMenu

toggleMenu == IF isMenuOpen THEN closeMenu ELSE openMenu

\* History of the menu: the flag before this event, and the length of the run
\* of toggle clicks since the page was loaded
MenuHistory(isToggleClick) ==
    /\ wasOpen' = isMenuOpen
    /\ toggleRun' = IF isToggleClick /\ toggleRun \in 0..(MaxToggles - 1)
                    THEN toggleRun + 1 ELSE -1

menuState == <<isMenuOpen, toggleActive, mobileActive, bodyOverflow>>

InitMenu ==
    /\ variant = "A"
    /\ signupFormPresent = TRUE
    /\ signupMessagePresent = TRUE
    /\ navTogglePresent \in BOOLEAN
    /\ navMobilePresent \in BOOLEAN
    /\ innerWidth \in Widths
    /\ FormInit
    /\ MenuInit
    /\ PageIdle
    /\ last = "init"

\* A click on the toggle control
ToggleClick ==
    /\ navTogglePresent
    /\ IF MenuWired THEN toggleMenu ELSE UNCHANGED menuState
    /\ last' = "toggle_click"
    /\ MenuHistory(TRUE)
    /\ UNCHANGED <<navTogglePresent, navMobilePresent, innerWidth>>
    /\ UNCHANGED <<formVars, pageVars>>

\* A click on mobile menu link l
LinkClick(l) ==
    /\ IF MenuWired THEN closeMenu ELSE UNCHANGED menuState
    /\ last' = "link_click"
    /\ MenuHistory(FALSE)
    /\ UNCHANGED <<navTogglePresent, navMobilePresent, innerWidth>>
    /\ UNCHANGED <<formVars, pageVars>>

\* A keydown event on the document with e.key = k
KeyDown(k) ==
    /\ IF MenuWired /\ k = "Escape" /\ isMenuOpen THEN closeMenu ELSE UNCHANGED menuState
    /\ last' = "key_" \o k
    /\ MenuHistory(FALSE)
    /\ UNCHANGED <<navTogglePresent, navMobilePresent, innerWidth>>
    /\ UNCHANGED <<formVars, pageVars>>

\* Mutant: the breakpoint itself is not treated as desktop width
Resize_StrictlyAbove(w) ==
    /\ innerWidth' = w
    /\ IF MenuWired /\ w > Breakpoint /\ isMenuOpen THEN closeMenu ELSE UNCHANGED menuState
    /\ last' = "resize"
    /\ wasOpen' = isMenuOpen
    /\ toggleRun' = -1
    /\ UNCHANGED <<navTogglePresent, navMobilePresent>>
    /\ UNCHANGED <<formVars, pageVars>>

\* The window is resized to width w
Resize(w) ==
    /\ innerWidth' = w
    /\ IF MenuWired /\ w >= Breakpoint /\ isMenuOpen THEN closeMenu ELSE UNCHANGED menuState
    /\ last' = "resize"
    /\ MenuHistory(FALSE)
    /\ UNCHANGED <<navTogglePresent, navMobilePresent>>
    /\ UNCHANGED <<formVars, pageVars>>

NextMenu ==
    \/ ToggleClick
    \/ \E l \in 1..NumLinks : LinkClick(l)
    \/ \E k \in Keys : KeyDown(k)
    \/ \E w \in Widths : Resize(w)

SpecMenu == InitMenu /\ [][NextMenu]_vars

----------------------------------------------------------------------------
(* Pages that lack optional elements: the signup form or its message area is *)
(* absent, and the toggle control and the menu container may be absent too.  *)
(* The events of the form and of the menu interleave.                        *)

InitDegraded ==
    /\ variant \in {"A", "B"}
    /\ signupFormPresent \in BOOLEAN
    /\ signupMessagePresent \in BOOLEAN
    /\ ~(signupFormPresent /\ signupMessagePresent)
    /\ navTogglePresent \in BOOLEAN
    /\ navMobilePresent \in BOOLEAN
    /\ innerWidth = 320
    /\ FormInit
    /\ MenuInit
    /\ PageIdle
    /\ last = "init"

\* The steps of Next and NextMenu. ClearTimerFires is not among them: on these
\* pages showMessage never arms a timer (clearTimers stays empty, which the
\* degradation property states), so there is no timer callback to run.
NextDegraded ==
    \/ \E v \in FieldValues : TypeInput(v)
    \/ SubmitHandler
    \/ \E i \in 1..MaxPending, o \in {"ok", "not_ok", "network_error"} : FetchSettles(i, o)
    \/ \E i \in 1..MaxPending, p \in BOOLEAN : JsonSettles(i, p)
    \/ SubmitTimerFires
    \/ Tick
    \/ ToggleClick
    \/ \E l \in 1..NumLinks : LinkClick(l)
    \/ \E k \in Keys : KeyDown(k)
    \/ \E w \in Widths : Resize(w)

SpecDegraded == InitDegraded /\ [][NextDegraded]_vars

----------------------------------------------------------------------------
(* The scroll watcher and the reveal animator *)

scrollThreshold == 50
ScrollOffsets == {0, 50, 51, 400}
NumReveal == 2
RevealElements == 1..NumReveal

InitPage ==
    /\ variant = "A"
    /\ signupFormPresent = TRUE
    /\ signupMessagePresent = TRUE
    /\ navTogglePresent = TRUE
    /\ navMobilePresent = TRUE
    /\ innerWidth = 320
    /\ FormInit
    /\ MenuInit
    \* setupNavScroll: handleScroll() runs once with the current offset
    /\ scrollY \in ScrollOffsets
    /\ scrollEventPending = FALSE
    /\ ticking = FALSE
    /\ frameCallbacks = 0
    /\ navScrolled = (scrollY > scrollThreshold)
    /\ lastScroll = scrollY
    \* setupRevealAnimations: fallback, or every element observed
    /\ observerSupported \in BOOLEAN
    /\ visible = IF observerSupported THEN {} ELSE RevealElements
    /\ observed = IF observerSupported THEN RevealElements ELSE {}
    /\ addCount = [e \in RevealElements |-> IF observerSupported THEN 0 ELSE 1]
    /\ inView = {}
    /\ last = "init"

\* Mutant: the threshold itself already counts as scrolled
handleScroll_AtLeast ==
    /\ navScrolled' = (scrollY >= scrollThreshold)
    /\ lastScroll' = scrollY

handleScroll ==
    /\ navScrolled' = (scrollY > scrollThreshold)
    /\ lastScroll' = scrollY

\* The page is scrolled to offset y; the browser dispatches the 'scroll' event
\* for it later, when it next updates the rendering
ScrollTo(y) ==
    /\ y # scrollY
    /\ scrollY' = y
    /\ scrollEventPending' = TRUE
    /\ last' = "scroll_offset"
    /\ UNCHANGED <<ticking, frameCallbacks, navScrolled, lastScroll>>
    /\ UNCHANGED <<formVars, menuVars, revealVars>>

\* Mutant: every scroll event requests an animation frame
ScrollEvent_NoThrottle ==
    /\ scrollEventPending
    /\ scrollEventPending' = FALSE
    /\ frameCallbacks' = frameCallbacks + 1
    /\ ticking' = TRUE
    /\ last' = "scroll"
    /\ UNCHANGED <<scrollY, navScrolled, lastScroll>>
    /\ UNCHANGED <<formVars, menuVars, revealVars>>

\* The 'scroll' listener of window
ScrollEvent ==
    /\ scrollEventPending
    /\ scrollEventPending' = FALSE
    /\ IF ~ticking
       THEN /\ frameCallbacks' = frameCallbacks + 1
            /\ ticking' = TRUE
       ELSE UNCHANGED <<frameCallbacks, ticking>>
    /\ last' = "scroll"
    /\ UNCHANGED <<scrollY, navScrolled, lastScroll>>
    /\ UNCHANGED <<formVars, menuVars, revealVars>>

\* A callback given to requestAnimationFrame runs
AnimationFrame ==
    /\ frameCallbacks > 0
    /\ handleScroll
    /\ ticking' = FALSE
    /\ frameCallbacks' = frameCallbacks - 1
    /\ last' = "frame"
    /\ UNCHANGED <<scrollY, scrollEventPending>>
    /\ UNCHANGED <<formVars, menuVars, revealVars>>

\* Mutant: a revealed element stays observed
ObserverCallback_KeepsObserving(intersecting) ==
    /\ visible' = visible \cup intersecting
    /\ addCount' = [e \in RevealElements |->
                        IF e \in intersecting THEN addCount[e] + 1 ELSE addCount[e]]
    /\ UNCHANGED observed

\* The observer's callback; intersecting: the targets of the entries that
\* have isIntersecting
ObserverCallback(intersecting) ==
    /\ visible' = visible \cup intersecting
    /\ addCount' = [e \in RevealElements |->
                        IF e \in intersecting THEN addCount[e] + 1 ELSE addCount[e]]
    /\ observed' = observed \ intersecting

\* The elements of S enter or leave the viewport; the observer reports those
\* of them it observes
ViewportChange(S) ==
    /\ S # {}
    /\ inView' = (inView \ S) \cup (S \ inView)
    /\ IF observerSupported
       THEN ObserverCallback({ e \in S \cap observed : e \in inView' })
       ELSE UNCHANGED <<visible, observed, addCount>>
    /\ last' = "intersection"
    /\ UNCHANGED observerSupported
    /\ UNCHANGED <<formVars, menuVars, scrollVars>>

NextPage ==
    \/ \E y \in ScrollOffsets : ScrollTo(y)
    \/ ScrollEvent
    \/ AnimationFrame
    \/ \E S \in SUBSET RevealElements : ViewportChange(S)

SpecPage == InitPage /\ [][NextPage]_vars

----------------------------------------------------------------------------
(* Properties of the signup form (Spec) *)

\* Events at which a submission settles
SettleEvents == {"fetch_not_ok", "fetch_network_error", "json_parsed", "json_failed",
                 "timer_elapsed"}

\* C1: whenever the submit handler runs on a field whose trimmed value fails
\* isValidEmail, the message area shows the invalid-address error, no
\* submission (request or timer) is started, and the button's disabled flag
\* and label are what they were before the event.
C1_InvalidSubmitRejected ==
    [][ (last' = "submit" /\ ~isValidEmail(trim(inputValue))) =>
          /\ signupMessagePresent =>
                 (msgText' = InvalidMessage /\ msgClass' = "signup-message error")
          /\ pending' = pending
          /\ buttonDisabled' = buttonDisabled
          /\ buttonText' = buttonText ]_vars

\* C1 witness: an invalid submit has just been handled with nothing pending:
\* the error is displayed and the button is enabled with its initial label.
C1_Witness ==
    /\ last = "submit"
    /\ ~isValidEmail(trim(inputValue))
    /\ msgText = InvalidMessage
    /\ pending = <<>>
    /\ ~buttonDisabled
    /\ buttonText = InitialLabel

\* C2: every run of the submit handler on a field whose trimmed value passes
\* isValidEmail disables the button, sets the pending label and starts
\* exactly one submission (a fetch in variant A, a 1000 ms timer in variant B).
C2_ValidSubmitStartsOne ==
    [][ (last' = "submit" /\ isValidEmail(trim(inputValue))) =>
          /\ buttonDisabled'
          /\ buttonText' = PendingLabel
          /\ Len(pending') = Len(pending) + 1
          /\ SubSeq(pending', 1, Len(pending)) = pending
          /\ LET sub == pending'[Len(pending')] IN
             IF variant = "A" THEN sub.stage = "fetch"
             ELSE sub.stage = "timer" /\ sub.remaining = SubmitDelay ]_vars

\* C2 witness: a valid submit has just been handled; one submission is
\* outstanding and the button is disabled with the pending label.
C2_Witness ==
    /\ last = "submit"
    /\ isValidEmail(trim(inputValue))
    /\ Len(pending) = 1
    /\ buttonDisabled
    /\ buttonText = PendingLabel

\* C3 (as claimed): whenever a submission has just settled, the button is
\* enabled and carries the label it had before any submission.
C3_ButtonRestoredOnSettle ==
    last \in SettleEvents => (~buttonDisabled /\ buttonText = InitialLabel)

\* C4 (as claimed): at most one submission is outstanding in every reachable
\* state, i.e. a submit event during a pending submission starts no second one.
C4_AtMostOneOutstanding == Len(pending) <= 1

\* C5: when a submission succeeds (variant A: the body of an OK response has
\* been parsed; variant B: the delay has elapsed), the message area shows the
\* success message with type 'success' and the e-mail field is empty.
C5_SuccessOutcome ==
    last \in {"json_parsed", "timer_elapsed"} =>
        /\ inputValue = <<>>
        /\ signupMessagePresent =>
               (msgText = SuccessMessage /\ msgClass = "signup-message success")

\* C5 witness: a success has just been handled and displayed; nothing is
\* outstanding any more.
C5_Witness ==
    /\ last \in {"json_parsed", "timer_elapsed"}
    /\ msgText = SuccessMessage
    /\ inputValue = <<>>
    /\ pending = <<>>

\* C6: (variant A) when the request rejects or the response is not OK, the
\* message area shows the retry-prompt error with type 'error', not the
\* success message, the submission is no longer outstanding (so it can never
\* succeed later), and the field keeps the value it held.
C6_FailureOutcome ==
    [][ last' \in {"fetch_not_ok", "fetch_network_error"} =>
          /\ signupMessagePresent =>
                 /\ msgText' = FailureMessage
                 /\ msgClass' = "signup-message error"
                 /\ msgText' # SuccessMessage
          /\ Len(pending') = Len(pending) - 1
          /\ inputValue' = inputValue ]_vars

\* C6 witness: a non-OK response has just been handled; the error is shown and
\* the field still holds the address that was typed.
C6_Witness ==
    /\ last = "fetch_not_ok"
    /\ msgText = FailureMessage
    /\ inputValue = <<"a", "@", "a", ".", "a">>

\* C9: a displayed message is never older than 5000 ms, the timer started by
\* the showMessage call that displayed it is armed and due exactly 5000 ms
\* after that call, and a firing timer empties the text and drops the type
\* class.
C9_MessageAutoClears ==
    /\ msgText # "" =>
          /\ msgAge <= ClearDelay
          /\ \E k \in 1..Len(clearTimers) : clearTimers[k] = ClearDelay - msgAge
    /\ last = "clear" => (msgText = "" /\ msgClass = BaseClass)

\* C9 witness: a message has been displayed for the full 5000 ms and its
\* timer is due.
C9_Witness ==
    /\ msgText # ""
    /\ msgAge = ClearDelay
    /\ clearTimers = <<0>>

\* C17 (as claimed): while a submission is outstanding the button is disabled
\* and shows the pending label; it is enabled only when none is outstanding.
C17_PendingImpliesDisabled ==
    /\ pending # <<>> => (buttonDisabled /\ buttonText = PendingLabel)
    /\ ~buttonDisabled => pending = <<>>

\* C18 (as claimed): a timer callback erases a displayed message only when
\* that message has been displayed for the full 5000 ms.
C18_NotClearedEarly ==
    [][ (last' = "clear" /\ msgText # "") => msgAge = ClearDelay ]_vars

\* The e-mail addresses of the outstanding submissions, oldest first
PendingEmails(p) == [k \in 1..Len(p) |-> p[k].email]

\* C19: the handler validates the trimmed field value, so a valid address
\* surrounded by whitespace starts a submission; in variant A the e-mail the
\* request carries is that trimmed value, and it stays what it was when the
\* field is edited or time passes while the request is outstanding.
C19_TrimmedValueSent ==
    /\ [](variant = "A" =>
             \A k \in 1..Len(pending) :
                 /\ isValidEmail(pending[k].email)
                 /\ pending[k].email = trim(pending[k].email))
    /\ [][ /\ (last' = "submit" /\ isValidEmail(trim(inputValue))) =>
                 /\ Len(pending') = Len(pending) + 1
                 /\ variant = "A" => pending'[Len(pending')].email = trim(inputValue)
           /\ last' \in {"input", "tick", "clear", "fetch_ok"} =>
                 PendingEmails(pending') = PendingEmails(pending) ]_vars

\* C19 witness: the field holds a valid address between a space and a tab, the
\* submit was accepted, and the request carries the address without them.
C19_Witness ==
    /\ variant = "A"
    /\ last = "submit"
    /\ inputValue = <<" ", "a", "@", "a", ".", "a", "\t">>
    /\ Len(pending) = 1
    /\ pending[1].email = <<"a", "@", "a", ".", "a">>

----------------------------------------------------------------------------
(* Properties of isValidEmail (SpecEmail) *)

HasAt(s) == \E i \in 1..Len(s) : s[i] = "@"
HasWhitespace(s) == \E i \in 1..Len(s) : s[i] \in {" ", "\t"}
HasDotAfterAt(s) == \E i, j \in 1..Len(s) : i < j /\ s[i] = "@" /\ s[j] = "."

\* s = L @ D . T with L, D, T non-empty and free of whitespace and '@'
HasAddressShape(s) ==
    \E i, j \in 1..Len(s) :
        /\ 1 < i /\ i + 1 < j /\ j < Len(s)
        /\ s[i] = "@"
        /\ s[j] = "."
        /\ \A k \in 1..Len(s) : k # i => s[k] \notin {" ", "\t", "@"}

\* C7: isValidEmail rejects every string that has no '@', or no '.' after an
\* '@', or a whitespace character.
C7_RejectsMalformed ==
    (last # "init" /\ (~HasAt(inputValue) \/ ~HasDotAfterAt(inputValue)
                                          \/ HasWhitespace(inputValue)))
        => last = "rejected"

\* C7 witness: a string with an '@', a '.' and no whitespace, but no '.' after
\* the '@', has been rejected.
C7_Witness ==
    /\ last = "rejected"
    /\ inputValue = <<"a", ".", "a", "@", "a">>

\* C8: isValidEmail accepts every string of the shape L@D.T with L, D and T
\* non-empty and free of whitespace and '@'.
C8_AcceptsAddressShape ==
    (last # "init" /\ HasAddressShape(inputValue)) => last = "accepted"

\* C8 witness: an address whose domain part holds a further '.' has been
\* accepted.
C8_Witness ==
    /\ last = "accepted"
    /\ inputValue = <<"a", "@", ".", ".", "a">>

----------------------------------------------------------------------------
(* Properties of the mobile menu (SpecMenu) *)

\* C10: isMenuOpen holds exactly when the 'active' marker is on both the
\* toggle control and the menu container and body overflow is 'hidden'; when
\* it does not hold, neither element has the marker and overflow is restored.
C10_MenuFlagMatchesMarkers ==
    /\ isMenuOpen <=> (toggleActive /\ mobileActive /\ bodyOverflow = "hidden")
    /\ ~isMenuOpen => (~toggleActive /\ ~mobileActive /\ bodyOverflow = "")

\* C10 witness: the menu has been opened by a toggle click.
C10_Witness ==
    /\ last = "toggle_click"
    /\ isMenuOpen
    /\ toggleActive /\ mobileActive /\ bodyOverflow = "hidden"

\* C11 (as claimed): whenever the viewport is at least 768 wide, the menu is
\* closed.
C11_ClosedAboveBreakpoint == innerWidth >= Breakpoint => ~isMenuOpen

\* C12: a link click leaves the menu closed; so does Escape (pressed while
\* open it closes, while closed it changes nothing) and a resize seen at a
\* width of 768 or more; any other key and a resize below 768 leave the flag
\* as it was before the event.
C12_ForcedClose ==
    /\ last = "link_click" => ~isMenuOpen
    /\ last = "key_Escape" => ~isMenuOpen
    /\ (last = "resize" /\ innerWidth >= Breakpoint) => ~isMenuOpen
    /\ (last = "resize" /\ innerWidth < Breakpoint) => isMenuOpen = wasOpen
    /\ last \in {"key_Enter", "key_Tab"} => isMenuOpen = wasOpen

\* C12 witness: a resize to exactly 768 has closed a menu that was open.
C12_Witness ==
    /\ last = "resize"
    /\ innerWidth = Breakpoint
    /\ wasOpen
    /\ ~isMenuOpen

\* C13: the menu starts closed; with toggle and menu container present, a
\* toggle click flips the flag, and after a run of n toggle clicks from the
\* initial state the menu is open exactly when n is odd.
C13_ToggleParity ==
    /\ last = "init" => ~isMenuOpen
    /\ (MenuWired /\ last = "toggle_click") => isMenuOpen = ~wasOpen
    /\ (MenuWired /\ toggleRun >= 0) => (isMenuOpen <=> toggleRun % 2 = 1)

\* C13 witness: three toggle clicks in a row from the initial state have left
\* the menu open, the second one having closed it.
C13_Witness ==
    /\ toggleRun = 3
    /\ ~wasOpen
    /\ isMenuOpen

----------------------------------------------------------------------------
(* Properties of the reveal animator and the scroll watcher (SpecPage) *)

\* C14: a revealed element keeps the 'visible' marker, the marker has been
\* added to it exactly once, it is no longer observed, and later intersection
\* events change nothing about it; an element receives the marker only in a
\* step in which it intersects (when the observer is available).
C14_RevealOnce ==
    /\ [](\A e \in RevealElements :
            /\ addCount[e] = IF e \in visible THEN 1 ELSE 0
            /\ e \in visible => e \notin observed)
    /\ [][ \A e \in RevealElements :
            /\ e \in visible => (e \in visible' /\ e \notin observed'
                                  /\ addCount'[e] = addCount[e])
            /\ (e \in visible' /\ e \notin visible) => e \in inView' ]_vars

\* C14 witness: element 1 was revealed and has since left the viewport, with
\* one add and no observation; element 2 has not been revealed.
C14_Witness ==
    /\ observerSupported
    /\ last = "intersection"
    /\ 1 \in visible /\ 1 \notin inView /\ 1 \notin observed /\ addCount[1] = 1
    /\ 2 \notin visible /\ 2 \in observed

\* C16 (as claimed): at most one frame callback is scheduled, and whenever
\* none is scheduled the bar has 'scrolled' exactly when the offset exceeds 50.
C16_MarkerTracksOffset ==
    /\ frameCallbacks <= 1
    /\ frameCallbacks = 0 => (navScrolled <=> scrollY > scrollThreshold)

\* C16 (amended): at most one frame callback is scheduled, and whenever none
\* is scheduled and no scroll event is awaiting dispatch the bar has
\* 'scrolled' exactly when the offset exceeds 50 (50 itself: no marker).
C16_MarkerTracksDeliveredOffset ==
    /\ frameCallbacks <= 1
    /\ ticking <=> frameCallbacks = 1
    /\ (frameCallbacks = 0 /\ ~scrollEventPending) =>
           (navScrolled <=> scrollY > scrollThreshold)

\* C16 witness: the offset is exactly 50 after a frame callback ran, with
\* nothing scheduled or awaiting dispatch, and the bar has no marker.
C16_Witness ==
    /\ last = "frame"
    /\ scrollY = scrollThreshold
    /\ frameCallbacks = 0
    /\ ~scrollEventPending
    /\ ~navScrolled

----------------------------------------------------------------------------
(* Properties of pages lacking optional elements (SpecDegraded) *)

\* C15: with the toggle control or the menu container absent the menu stays
\* closed and no marker is written; with the form absent nothing of the
\* submit flow ever happens; with the message area absent nothing is written
\* to it and no timer is armed, while a valid submit still disables the
\* button and starts a submission and a settled submission re-enables it.
C15_GracefulDegradation ==
    /\ ~(navTogglePresent /\ navMobilePresent) =>
          (~isMenuOpen /\ ~toggleActive /\ ~mobileActive /\ bodyOverflow = "")
    /\ ~signupFormPresent =>
          /\ pending = <<>> /\ inputValue = <<>>
          /\ ~buttonDisabled /\ buttonText = InitialLabel
          /\ msgText = "" /\ clearTimers = <<>>
    /\ ~signupMessagePresent =>
          /\ msgText = "" /\ msgClass = BaseClass /\ clearTimers = <<>>
          /\ (last = "submit" /\ isValidEmail(trim(inputValue))) =>
                 (buttonDisabled /\ buttonText = PendingLabel /\ pending # <<>>)
          /\ last \in SettleEvents => ~buttonDisabled
          /\ last \in {"json_parsed", "timer_elapsed"} => inputValue = <<>>

\* C15 witness: the menu container and the message area are absent; toggle
\* clicks have left the menu closed, and a submission has run to success
\* with the button restored.
C15_Witness ==
    /\ navTogglePresent /\ ~navMobilePresent
    /\ signupFormPresent /\ ~signupMessagePresent
    /\ toggleRun = 1
    /\ ~isMenuOpen
    /\ last \in {"json_parsed", "timer_elapsed"}
    /\ pending = <<>>
    /\ ~buttonDisabled /\ buttonText = InitialLabel

====
